---- MODULE Spec2Model ----
(***************************************************************************)
(* AwaitableBool (src/src/lib.rs): an AtomicBool paired with a             *)
(* tokio::sync::Notify.  Tasks call the public methods concurrently; each  *)
(* atomic access of the cell and each call into the notifier is one step.  *)
(*                                                                         *)
(* The notifier follows tokio's Notify: notify_waiters() increments the    *)
(* notify_waiters_calls counter and wakes every registered waiter, storing *)
(* no permit; notified() creates a Notified future that records the        *)
(* counter; the future's first poll completes at once when the counter has *)
(* moved since, and registers the task as a waiter otherwise.              *)
(*                                                                         *)
(* `async fn wait` is lazy: calling self.wait() only builds a future, and  *)
(* its body (the call of notified()) runs when that future is first        *)
(* polled, i.e. at `wait_fut.await`.                                       *)
(***************************************************************************)
EXTENDS Naturals, FiniteSets

\* Number of mutating calls (set_true, set_false, toggle) that may be started.
MaxMutations == 2

\* The tasks that share one AwaitableBool (by reference, e.g. in an Arc): three,
\* so that two of them can wait while the third mutates, and two can race
\* while the third waits.
Tasks == {"A", "B", "C"}

Mutators == {"set_true", "set_false", "toggle"}

Waits == {"wait", "wait_true", "wait_false"}

Loads == {"load", "is_true", "is_false"}

VARIABLES
    value,      \* AwaitableBool.bool : AtomicBool
    waiters,    \* AwaitableBool.notify : the tasks registered in the waiter list
    calls,      \* AwaitableBool.notify : notify_waiters_calls
    op,         \* op[t]   : the method task t is in ("none": in no call)
    pc,         \* pc[t]   : where task t is in that method
    snap,       \* snap[t] : notify_waiters_calls recorded by t's Notified future
    ret,        \* ret[t]  : what t's last load(), is_true() or is_false() returned
    \* history: no action reads it, but for the bound on started
    init,       \* the value the flag was constructed with
    started,    \* started[m] : calls of mutator m begun so far
    writes,     \* atomic writes performed (successful CAS, fetch_xor)
    begun,      \* begun[t] : notify_waiters calls completed when t called wait()
    met,        \* met[t] : the value t's conditional wait is for has been there
                \*          at some moment since t's latest wake-up
    held,       \* held[t] : the value has been true at some moment since t
                \*           called wait_true()
    woke,       \* the tasks woken from wait_true() since the data was written
    fresh,      \* how the flag was constructed ("new", "default") while no
                \* mutator has been called; "used" from then on
    inner,      \* what into_inner() returned: {} while the flag is not consumed
    \* memory: what Release and Acquire make visible of a write to other
    \* shared data that a caller did before it called a mutator
    dw,         \* the task that wrote the data ("nobody": not written)
    sees,       \* the tasks for which that write happens-before their next step
    pub,        \* the write happens-before the head of the release sequence
                \* the cell's value belongs to
    made        \* the writer has since made the value true

vars == <<value, waiters, calls, op, pc, snap, ret, init, started, writes, begun, met,
          held, woke, fresh, inner, dw, sees, pub, made>>

----------------------------------------------------------------------------
\* A constructor that ignores its argument.
NewIgnoring(v) == FALSE

\* AwaitableBool::new(value): value.into().into() -- the cell holds the argument.
New(v) == v

\* #[derive(Default)]: AtomicBool::default() is false.
Default == FALSE

\* AwaitableBool::new / From / Default: new(v) for any v, or default(), with
\* a fresh Notify.  init is the argument of new, and the value default() gave.
Init ==
    /\ fresh \in {"new", "default"}
    /\ init \in (IF fresh = "new" THEN BOOLEAN ELSE {Default})
    /\ value = (IF fresh = "new" THEN New(init) ELSE Default)
    /\ inner = {}
    /\ waiters = {}
    /\ calls = 0
    /\ op = [t \in Tasks |-> "none"]
    /\ pc = [t \in Tasks |-> "idle"]
    /\ snap = [t \in Tasks |-> 0]
    /\ ret = [t \in Tasks |-> FALSE]
    /\ started = [m \in Mutators |-> 0]
    /\ writes = 0
    /\ begun = [t \in Tasks |-> 0]
    /\ met = [t \in Tasks |-> FALSE]
    /\ held = [t \in Tasks |-> FALSE]
    /\ woke = {}
    /\ dw = "nobody"
    /\ sees = {}
    /\ pub = FALSE
    /\ made = FALSE

\* A task that is in no call: it never called, its last call returned, or it
\* dropped its pending wait.
AtRest(t) == pc[t] = "idle"

NumStarted == started["set_true"] + started["set_false"] + started["toggle"]

\* The value a conditional wait is for.
Target(w) == w = "wait_true"

\* A step of a task leaves the flag unconsumed: into_inner takes the flag by
\* value, so no task can use it afterwards.  The first call of a mutator ends
\* the flag's being fresh.  held follows the value through the step: it starts
\* with the value at the call of wait_true() and ends with the call.
Shared ==
    /\ inner = {}
    /\ UNCHANGED inner
    /\ fresh' = (IF NumStarted' = 0 THEN fresh ELSE "used")
    /\ held' = [t \in Tasks |->
                  /\ op'[t] = "wait_true"
                  /\ (op[t] = "wait_true" /\ held[t]) \/ value']
    /\ woke' = woke \cup {t \in Tasks : /\ dw # "nobody"
                                        /\ op[t] = "wait_true" /\ pc[t] \in {"woken", "ready"}
                                        /\ op'[t] = "none"}

\* An access of the cell with Ordering::Relaxed (the failure ordering of
\* compare_exchange), and a step that does not access the cell: nothing
\* becomes visible to anybody.
Relaxed == UNCHANGED <<dw, sees, pub, made>>

\* The write of a read-modify-write with Ordering::Release (compare_exchange
\* on success, fetch_xor): what happens-before the writer's step is published
\* with the new value.  Read-modify-writes continue the release sequence of
\* the value they replace, so what was published stays published.  The read
\* of the operation is relaxed: the writer learns nothing.
Release(t) ==
    /\ pub' = (pub \/ t \in sees)
    /\ made' = (made \/ (t = dw /\ value'))
    /\ UNCHANGED <<dw, sees>>

\* A load that learns nothing from the value it reads.
AcquireRelaxed(t) == UNCHANGED <<dw, sees, pub, made>>

\* load(Ordering::Acquire): the reader synchronizes with the release
\* sequence of the value it reads; what was published happens-before its
\* next step.
Acquire(t) ==
    /\ sees' = (IF pub THEN sees \cup {t} ELSE sees)
    /\ UNCHANGED <<dw, pub, made>>

\* AwaitableBool::load
load == value

\* AwaitableBool::is_true
is_true == load

\* AwaitableBool::is_false
is_false == ~load

\* A woken task, not yet polled again: "woken" after it was registered,
\* "ready" when its first poll found the future complete.
Awake(t) == pc[t] \in {"woken", "ready"}

\* met once value v is written.
Observe(v) ==
    [t \in Tasks |-> met[t] \/ (Awake(t) /\ op[t] \in {"wait_true", "wait_false"}
                                         /\ v = Target(op[t]))]

\* met of a task that wakes up now.
AtWake(t) == op[t] \in {"wait_true", "wait_false"} /\ value = Target(op[t])

----------------------------------------------------------------------------
\* A task enters set_true, set_false or toggle.
CallMutator(t, m) ==
    /\ AtRest(t)
    /\ NumStarted < MaxMutations
    /\ op' = [op EXCEPT ![t] = m]
    /\ pc' = [pc EXCEPT ![t] = IF m = "toggle" THEN "xor" ELSE "cas"]
    /\ started' = [started EXCEPT ![m] = @ + 1]
    /\ ret' = [ret EXCEPT ![t] = FALSE]
    /\ UNCHANGED <<value, waiters, calls, snap, init, writes, begun, met>>
    /\ Shared
    /\ Relaxed

\* The caller writes some other shared data and then enters set_true,
\* set_false or toggle.
WriteThenCall(t, m) ==
    /\ dw = "nobody"
    /\ AtRest(t)
    /\ NumStarted < MaxMutations
    /\ op' = [op EXCEPT ![t] = m]
    /\ pc' = [pc EXCEPT ![t] = IF m = "toggle" THEN "xor" ELSE "cas"]
    /\ started' = [started EXCEPT ![m] = @ + 1]
    /\ ret' = [ret EXCEPT ![t] = FALSE]
    /\ UNCHANGED <<value, waiters, calls, snap, init, writes, begun, met>>
    /\ Shared
    /\ dw' = t
    /\ sees' = {t}
    /\ UNCHANGED <<pub, made>>

\* The method of task t returns.
Return(t) ==
    /\ op' = [op EXCEPT ![t] = "none"]
    /\ pc' = [pc EXCEPT ![t] = "idle"]

\* A setter that stores and notifies without comparing.
CompareExchangeStore(t, current, new) ==
    /\ value' = new
    /\ writes' = writes + 1
    /\ met' = Observe(new)
    /\ pc' = [pc EXCEPT ![t] = "notify"]
    /\ UNCHANGED op
    /\ Release(t)

\* A setter that notifies whether or not its compare-and-swap succeeded.
CompareExchangeNotifyAnyway(t, current, new) ==
    /\ IF value = current
       THEN value' = new /\ writes' = writes + 1 /\ met' = Observe(new) /\ Release(t)
       ELSE UNCHANGED <<value, writes, met>> /\ Relaxed
    /\ pc' = [pc EXCEPT ![t] = "notify"]
    /\ UNCHANGED op

\* A setter that waits until its compare-and-swap can succeed.
CompareExchangeBlocking(t, current, new) ==
    /\ value = current
    /\ value' = new
    /\ writes' = writes + 1
    /\ met' = Observe(new)
    /\ pc' = [pc EXCEPT ![t] = "notify"]
    /\ UNCHANGED op
    /\ Release(t)

\* compare_exchange(current, new, Release, Relaxed).is_ok() of set_true and
\* set_false: on success the call goes on to notify, on failure it returns.
CompareExchange(t, current, new) ==
    IF value = current
    THEN /\ value' = new
         /\ writes' = writes + 1
         /\ met' = Observe(new)
         /\ pc' = [pc EXCEPT ![t] = "notify"]
         /\ UNCHANGED op
         /\ Release(t)
    ELSE /\ Return(t)
         /\ UNCHANGED <<value, writes, met>>
         /\ Relaxed

\* set_true: self.bool.compare_exchange(false, true, ..)
SetTrueCas(t) ==
    /\ op[t] = "set_true" /\ pc[t] = "cas"
    /\ CompareExchange(t, FALSE, TRUE)
    /\ UNCHANGED <<waiters, calls, snap, ret, init, started, begun>>
    /\ Shared

\* set_false: self.bool.compare_exchange(true, false, ..)
SetFalseCas(t) ==
    /\ op[t] = "set_false" /\ pc[t] = "cas"
    /\ CompareExchange(t, TRUE, FALSE)
    /\ UNCHANGED <<waiters, calls, snap, ret, init, started, begun>>
    /\ Shared

\* A toggle that uses fetch_or instead of fetch_xor.
ToggleOr(t) ==
    /\ op[t] = "toggle" /\ pc[t] = "xor"
    /\ value' = TRUE
    /\ writes' = writes + 1
    /\ met' = Observe(TRUE)
    /\ pc' = [pc EXCEPT ![t] = "notify"]
    /\ UNCHANGED <<waiters, calls, op, snap, ret, init, started, begun>>
    /\ Shared
    /\ Release(t)

\* toggle: self.bool.fetch_xor(true, Release)
ToggleXor(t) ==
    /\ op[t] = "toggle" /\ pc[t] = "xor"
    /\ value' = ~value
    /\ writes' = writes + 1
    /\ met' = Observe(~value)
    /\ pc' = [pc EXCEPT ![t] = "notify"]
    /\ UNCHANGED <<waiters, calls, op, snap, ret, init, started, begun>>
    /\ Shared
    /\ Release(t)

\* A notifier that wakes nobody.
NotifiedNone == {}

\* A notifier that wakes one waiter (notify_one in place of notify_waiters).
NotifiedOne == IF waiters = {} THEN {} ELSE {CHOOSE t \in waiters : TRUE}

\* The tasks a call of Notify::notify_waiters wakes: every registered waiter.
Notified == waiters

\* self.notify.notify_waiters() of set_true, set_false and toggle: count the
\* call, wake and unregister the waiters; the mutator returns.
NotifyWaiters(t) ==
    /\ op[t] \in Mutators /\ pc[t] = "notify"
    /\ calls' = calls + 1
    /\ waiters' = waiters \ Notified
    /\ pc' = [u \in Tasks |-> IF u = t THEN "idle"
                              ELSE IF u \in Notified THEN "woken" ELSE pc[u]]
    /\ op' = [op EXCEPT ![t] = "none"]
    /\ met' = [u \in Tasks |-> IF u \in Notified THEN AtWake(u) ELSE met[u]]
    /\ begun' = [u \in Tasks |-> IF u \in Notified THEN 0 ELSE begun[u]]
    /\ UNCHANGED <<value, snap, ret, init, started, writes>>
    /\ Shared
    /\ Relaxed

----------------------------------------------------------------------------
\* What load(), is_true() and is_false() return.
Result(l) == IF l = "is_false" THEN is_false ELSE IF l = "is_true" THEN is_true ELSE load

\* load(), is_true(), is_false(): one atomic read; the call returns.
Load(t, l) ==
    /\ AtRest(t)
    /\ ret' = [ret EXCEPT ![t] = Result(l)]
    /\ Return(t)
    /\ UNCHANGED <<value, waiters, calls, snap, init, started, writes, begun, met>>
    /\ Shared
    /\ Acquire(t)

\* A task enters wait(), wait_true() or wait_false().  wait() is polled at
\* once; wait_true() and wait_false() first build the future of self.wait(),
\* which runs nothing of wait()'s body, and go on to their check.
CallWait(t, w) ==
    /\ AtRest(t)
    /\ op' = [op EXCEPT ![t] = w]
    /\ pc' = [pc EXCEPT ![t] = IF w = "wait" THEN "notified" ELSE "check"]
    /\ ret' = [ret EXCEPT ![t] = FALSE]
    /\ begun' = [begun EXCEPT ![t] = IF w = "wait" THEN calls ELSE 0]
    /\ UNCHANGED <<value, waiters, calls, snap, init, started, writes, met>>
    /\ Shared
    /\ Relaxed

\* A conditional wait that awaits without looking at the value.
MustWaitAlways(w) == TRUE

\* What the check of a conditional wait finds: TRUE when it has to await.
MustWait(w) == IF w = "wait_true" THEN is_false ELSE is_true

\* wait_true: if self.is_false() { wait_fut.await }
\* wait_false: if self.is_true() { wait_fut.await }
Check(t) ==
    /\ op[t] \in {"wait_true", "wait_false"} /\ pc[t] = "check"
    /\ IF MustWait(op[t])
       THEN /\ pc' = [pc EXCEPT ![t] = "notified"]
            /\ UNCHANGED op
       ELSE Return(t)
    /\ UNCHANGED <<value, waiters, calls, snap, ret, init, started, writes, begun, met>>
    /\ Shared
    /\ Acquire(t)

\* wait: self.notify.notified() -- the Notified future records
\* notify_waiters_calls.
CreateNotified(t) ==
    /\ op[t] \in Waits /\ pc[t] = "notified"
    /\ snap' = [snap EXCEPT ![t] = calls]
    /\ pc' = [pc EXCEPT ![t] = "poll"]
    /\ UNCHANGED <<value, waiters, calls, op, ret, init, started, writes, begun, met>>
    /\ Shared
    /\ Relaxed

\* A notifier that keeps a past notify_waiters call as a stored signal.
ReadyStored(t) == calls # 0

\* Notified::poll, first poll: the future is complete when notify_waiters was
\* called since the future was created.
Ready(t) == calls # snap[t]

\* wait: .await -- the first poll of the Notified future.  When it is not
\* ready the task is registered as a waiter and suspends.  The recorded count
\* is not read again.
PollNotified(t) ==
    /\ op[t] \in Waits /\ pc[t] = "poll"
    /\ snap' = [snap EXCEPT ![t] = 0]
    /\ IF Ready(t)
       THEN /\ pc' = [pc EXCEPT ![t] = "ready"]
            /\ met' = [met EXCEPT ![t] = AtWake(t)]
            /\ begun' = [begun EXCEPT ![t] = 0]
            /\ UNCHANGED waiters
       ELSE /\ pc' = [pc EXCEPT ![t] = "waiting"]
            /\ waiters' = waiters \cup {t}
            /\ UNCHANGED <<met, begun>>
    /\ UNCHANGED <<value, calls, op, ret, init, started, writes>>
    /\ Shared
    /\ Relaxed

\* The woken task is polled again: the Notified future is ready, wait()
\* returns, and with it wait_true() / wait_false(), which do nothing after
\* the await.
Resume(t) ==
    /\ op[t] \in Waits /\ Awake(t)
    /\ Return(t)
    /\ met' = [met EXCEPT ![t] = FALSE]
    /\ UNCHANGED <<value, waiters, calls, snap, ret, init, started, writes, begun>>
    /\ Shared
    /\ Relaxed

\* A drop that empties the waiter list.
DropWaitAll(t) ==
    /\ op[t] \in Waits /\ pc[t] \in {"waiting", "woken"}
    /\ Return(t)
    /\ waiters' = {}
    /\ met' = [met EXCEPT ![t] = FALSE]
    /\ begun' = [begun EXCEPT ![t] = 0]
    /\ UNCHANGED <<value, calls, snap, ret, init, started, writes>>
    /\ Shared
    /\ Relaxed

\* The caller drops a pending wait (cancellation): Notified's Drop takes the
\* task off the waiter list.
DropWait(t) ==
    /\ op[t] \in Waits /\ pc[t] \in {"waiting", "woken"}
    /\ Return(t)
    /\ waiters' = waiters \ {t}
    /\ met' = [met EXCEPT ![t] = FALSE]
    /\ begun' = [begun EXCEPT ![t] = 0]
    /\ UNCHANGED <<value, calls, snap, ret, init, started, writes>>
    /\ Shared
    /\ Relaxed

----------------------------------------------------------------------------
\* A step inside a call that is under way.
Step(t) ==
    \/ SetTrueCas(t)
    \/ SetFalseCas(t)
    \/ ToggleXor(t)
    \/ NotifyWaiters(t)
    \/ Check(t)
    \/ CreateNotified(t)
    \/ PollNotified(t)
    \/ Resume(t)

\* What the callers decide: which method to call next, and whether to drop
\* a pending wait.
Call(t) ==
    \/ \E m \in Mutators : CallMutator(t, m)
    \/ \E l \in Loads : Load(t, l)
    \/ \E w \in Waits : CallWait(t, w)
    \/ DropWait(t)

\* An into_inner that hands out a new cell instead of the flag's.
IntoInnerDefault ==
    /\ inner = {}
    /\ \A t \in Tasks : AtRest(t)
    /\ inner' = {Default}
    /\ UNCHANGED <<value, waiters, calls, op, pc, snap, ret, init, started, writes,
                   begun, met, held, woke, fresh, dw, sees, pub, made>>

\* into_inner(self) -> AtomicBool: self.bool.  The flag is moved, so no task
\* is inside a call or holds a pending wait on it.
IntoInner ==
    /\ inner = {}
    /\ \A t \in Tasks : AtRest(t)
    /\ inner' = {value}
    /\ UNCHANGED <<value, waiters, calls, op, pc, snap, ret, init, started, writes,
                   begun, met, held, woke, fresh, dw, sees, pub, made>>

Next ==
    \/ \E t \in Tasks : Step(t) \/ Call(t)
    \/ IntoInner

Spec == Init /\ [][Next]_vars

\* The calls that take part in waiting and waking: the mutators and the waits.
\* (The loads are left to Spec: they read the value and change nothing.)
LiveCall(t) ==
    \/ \E m \in Mutators : CallMutator(t, m)
    \/ \E w \in Waits : CallWait(t, w)
    \/ DropWait(t)

LiveNext ==
    \/ \E t \in Tasks : Step(t) \/ LiveCall(t)
    \/ IntoInner

\* Every call under way keeps running, and a woken task is polled again;
\* nothing obliges a caller to start a call or to drop a wait.
FairSpec == Init /\ [][LiveNext]_vars /\ \A t \in Tasks : WF_vars(Step(t))

\* The calls that pass data from a task that sets the flag to one that waits
\* for it: a mutator, with or without a write of the data before it,
\* wait_true() and load().
MemCall(t) ==
    \/ \E m \in Mutators : WriteThenCall(t, m)
    \/ \E m \in Mutators : CallMutator(t, m)
    \/ Load(t, "load")
    \/ CallWait(t, "wait_true")

MemNext == \E t \in Tasks : Step(t) \/ MemCall(t)

MemSpec == Init /\ [][MemNext]_vars

----------------------------------------------------------------------------
TypeOK ==
    /\ value \in BOOLEAN
    /\ waiters \subseteq Tasks
    /\ calls \in 0..MaxMutations
    /\ writes \in 0..MaxMutations
    /\ snap \in [Tasks -> 0..MaxMutations]
    /\ ret \in [Tasks -> BOOLEAN]
    /\ met \in [Tasks -> BOOLEAN]
    /\ held \in [Tasks -> BOOLEAN]
    /\ woke \subseteq Tasks
    /\ dw \in Tasks \cup {"nobody"}
    /\ sees \subseteq Tasks
    /\ pub \in BOOLEAN
    /\ made \in BOOLEAN
    /\ begun \in [Tasks -> 0..MaxMutations]
    /\ fresh \in {"new", "default", "used"}
    /\ inner \subseteq BOOLEAN
    /\ \A t \in Tasks : t \in waiters <=> pc[t] = "waiting"

----------------------------------------------------------------------------
\* No mutator other than m has been called so far.
OnlyCalled(m) == \A k \in Mutators \ {m} : started[k] = 0

\* No mutating call is under way.
NoMutatorInProgress == \A t \in Tasks : op[t] \notin Mutators

\* No mutating call will be started any more.
NoMoreMutators == NumStarted = MaxMutations

\* A task is about to do the compare-and-swap of set_true, and that is the
\* only mutating call there is and will be.
LoneSetTrue ==
    /\ \E u \in Tasks :
          /\ op[u] = "set_true" /\ pc[u] = "cas"
          /\ \A v \in Tasks \ {u} : op[v] \notin Mutators
    /\ NoMoreMutators

\* Task t is in wait_true(), has read the value as false and has not been woken.
ReadFalse(t) == op[t] = "wait_true" /\ pc[t] \in {"notified", "poll", "waiting"}

\* C1: a wait_true() that read the value as false, and whose value is then
\* made true for good by a set_true(), eventually returns (or is dropped by
\* its caller), also when the set_true() runs before the waiter is registered.
C1_NoMissedWakeup ==
    \A t \in Tasks :
        (ReadFalse(t) /\ value = FALSE /\ LoneSetTrue) ~> (op[t] # "wait_true")

\* C2: a wait_true() that was suspended returns only when the value has been
\* true at some moment since its latest wake-up (which a load() returning
\* true after that wake-up implies).
C2_ReturnsOnlyAfterSeeingTrue ==
    [][\A t \in Tasks :
          (op[t] = "wait_true" /\ pc[t] = "woken" /\ op'[t] = "none") => met[t]]_vars

\* C3: when A is suspended in wait_true() on a false flag and B then runs
\* set_true(), with no other mutator, A is woken and load() is true from then
\* on (unless A's caller drops the wait first).
C3_HandOff ==
    \A a \in Tasks :
        (op[a] = "wait_true" /\ pc[a] = "waiting" /\ value = FALSE /\ LoneSetTrue)
            ~> ((op[a] = "wait_true" /\ pc[a] = "woken" /\ load) \/ AtRest(a))

\* A was suspended in wait_true() on a flag that started false, and the
\* broadcast of a set_true() -- no other mutator was ever called -- woke it.
C3_Witness ==
    \E a \in Tasks :
        /\ op[a] = "wait_true" /\ pc[a] = "woken"
        /\ init = FALSE /\ load
        /\ OnlyCalled("set_true") /\ NoMoreMutators /\ NoMutatorInProgress

\* The setter whose compare-and-swap targets the value v.
SetterTo(v) == IF v THEN "set_true" ELSE "set_false"

\* C4: when only set_false() is called on a flag that started true (only
\* set_true() on one that started false), by any number of tasks at once, at
\* most one compare-and-swap succeeds and at most one broadcast is issued;
\* once the calls have completed there was exactly one of each and the value
\* is the setter's.
C4_OneTransitionPerRace ==
    \A v \in BOOLEAN :
        (init = ~v /\ OnlyCalled(SetterTo(v)) /\ started[SetterTo(v)] >= 1) =>
            /\ writes <= 1
            /\ calls <= writes
            /\ NoMutatorInProgress => (writes = 1 /\ calls = 1 /\ load = v)

\* Two set_false() calls race on a true flag: one has won the compare-and-swap
\* and the other has yet to try it.
C4_Witness ==
    \E t \in Tasks : \E u \in Tasks \ {t} :
        /\ init = TRUE /\ OnlyCalled("set_false")
        /\ op[t] = "set_false" /\ pc[t] = "notify"
        /\ op[u] = "set_false" /\ pc[u] = "cas"

\* The number of tasks at position p of method m.
NumAt(m, p) == Cardinality({t \in Tasks : op[t] = m /\ pc[t] = p})

\* C5: when only toggle() is called, every call that has done its fetch_xor
\* flipped the value once and every completed call broadcast once: with K
\* calls completed, K broadcasts were issued and the value is the initial one
\* for even K and its negation for odd K.
C5_ToggleFlipsAndBroadcastsOnce ==
    OnlyCalled("toggle") =>
        /\ writes = started["toggle"] - NumAt("toggle", "xor")
        /\ calls = writes - NumAt("toggle", "notify")
        /\ load = (IF writes % 2 = 0 THEN init ELSE ~init)

\* Two concurrent toggle() calls have both flipped the value, which is back
\* at its initial value, and neither has broadcast yet.
C5_Witness ==
    /\ OnlyCalled("toggle")
    /\ NumAt("toggle", "notify") >= 2
    /\ load = init

\* C6: the broadcasts issued never exceed the atomic writes performed; the
\* difference is the number of calls that have written and not yet broadcast,
\* so the two are equal whenever no mutating call is under way.
C6_BroadcastPairsWithWrite ==
    /\ calls <= writes
    /\ writes - calls = Cardinality({t \in Tasks : op[t] \in Mutators /\ pc[t] = "notify"})
    /\ NoMutatorInProgress => calls = writes

\* A compare-and-swap failed and issued no broadcast, while an earlier write
\* was broadcast: two mutator calls, one write, one broadcast.
C6_Witness ==
    /\ NoMutatorInProgress
    /\ NumStarted = 2 /\ writes = 1 /\ calls = 1

\* C7: the check of wait_true() on a true flag (of wait_false() on a false one)
\* is always able to run, and it returns at once: the task is not registered
\* as a waiter, and nothing of the flag changes.
C7_FastPath ==
    /\ [](\A t \in Tasks : pc[t] = "check" => ENABLED Check(t))
    /\ [][\A t \in Tasks :
             (pc[t] = "check" /\ load = Target(op[t]) /\ pc'[t] # "check") =>
                 /\ op'[t] = "none" /\ pc'[t] = "idle"
                 /\ UNCHANGED <<value, waiters, calls, writes>>]_vars

\* wait_true() was called on a true flag by the only task that ever did
\* anything.
C7_Witness ==
    \E t \in Tasks :
        /\ op[t] = "wait_true" /\ pc[t] = "check" /\ load
        /\ \A u \in Tasks \ {t} : AtRest(u)
        /\ NumStarted = 0 /\ calls = 0

\* C8: every task suspended in wait_true() when a set_true() call is made is
\* woken (or dropped by its caller), whatever the value at the time of the call.
C8_SetTrueWakesWaitTrue ==
    \A t \in Tasks :
        (op[t] = "wait_true" /\ pc[t] = "waiting"
            /\ \E u \in Tasks : op[u] = "set_true" /\ pc[u] = "cas")
            ~> (pc[t] # "waiting")

\* C9: a wait() is woken only by a broadcast issued after it was called: one
\* issued in the very step that wakes it, or one counted since the call.
C9_NoStoredSignal ==
    [][\A t \in Tasks :
          (op[t] = "wait" /\ ~Awake(t) /\ op'[t] = "wait" /\ Awake(t)') =>
              calls' > begun[t]]_vars

\* A wait() called after a broadcast had completed is suspended, and no
\* broadcast was issued since.
C9_Witness ==
    \E t \in Tasks :
        /\ op[t] = "wait" /\ pc[t] = "waiting"
        /\ begun[t] >= 1 /\ calls = begun[t]

\* C10: a broadcast wakes every task that is registered as a waiter at that
\* moment, and leaves none registered.
C10_BroadcastWakesAll ==
    [][calls' # calls =>
          /\ \A t \in waiters : pc'[t] = "woken"
          /\ waiters' = {}]_vars

\* Two tasks are suspended in different kinds of wait, and a mutator that has
\* changed the value is about to broadcast.
C10_Witness ==
    \E t \in Tasks : \E u \in Tasks \ {t} :
        /\ {t, u} \subseteq waiters /\ op[t] # op[u]
        /\ \E m \in Tasks : op[m] \in Mutators /\ pc[m] = "notify"

\* C11: while no mutator has been called, a flag built with new(v) (v = init)
\* has load() = v, is_true() = v and is_false() = ~v, and default() gives a
\* false flag; no broadcast has been issued and no task is woken, and with no
\* call under way nobody is registered; there is no pending wake-up, so the
\* first poll of a wait on such a flag suspends.
C11_Construction ==
    /\ [](fresh # "used" =>
            /\ load = init /\ is_true = init /\ is_false = ~init
            /\ fresh = "default" => load = FALSE
            /\ calls = 0
            /\ \A t \in Tasks : ~Awake(t)
            /\ (\A t \in Tasks : AtRest(t)) => waiters = {})
    /\ [][fresh # "used" =>
             \A t \in Tasks : (pc[t] = "poll" /\ pc'[t] # "poll") => pc'[t] = "waiting"]_vars

\* On a flag built with new(true) and not mutated since, a task's is_true()
\* returned true and another task's wait() is suspended.
C11_Witness ==
    /\ fresh = "new" /\ init = TRUE
    /\ \E t \in Tasks : AtRest(t) /\ ret[t]
    /\ \E u \in Tasks : op[u] = "wait" /\ pc[u] = "waiting"

\* C12: the compare-and-swap of set_true() leaves the value true and that of
\* set_false() leaves it false, from either starting value; so when only one
\* setter has been called, however often, and every call is past its
\* compare-and-swap, load() is that setter's value.  A call that finds the
\* value already there changes nothing and returns without a broadcast: at
\* most one broadcast is issued by repeated calls, none on a flag that was
\* constructed with the setter's value.
C12_SetterPostcondition ==
    /\ [](\A v \in BOOLEAN :
            (OnlyCalled(SetterTo(v)) /\ started[SetterTo(v)] >= 1
                /\ NumAt(SetterTo(v), "cas") = 0) =>
                    (load = v /\ calls <= (IF init = v THEN 0 ELSE 1)))
    /\ [][\A t \in Tasks :
             (op[t] \in {"set_true", "set_false"} /\ pc[t] = "cas" /\ pc'[t] # "cas") =>
                 /\ load' = (op[t] = "set_true")
                 /\ (load = load') =>
                        (op'[t] = "none" /\ UNCHANGED <<value, calls, writes, waiters>>)]_vars

\* set_true() was called twice on a flag that started false and both calls
\* are over: one write, one broadcast, and a load() since returned true.
C12_Witness ==
    /\ init = FALSE /\ OnlyCalled("set_true") /\ started["set_true"] = 2
    /\ NoMutatorInProgress
    /\ writes = 1 /\ calls = 1
    /\ \E t \in Tasks : AtRest(t) /\ ret[t]

\* C13: the fetch_xor of toggle() negates the value, whatever it is; so when
\* only toggle() has been called and no call is under way, load() is the
\* negation of the initial value after one call and the initial value again
\* after two.
C13_ToggleInvolution ==
    /\ [][\A t \in Tasks :
             (op[t] = "toggle" /\ pc[t] = "xor" /\ pc'[t] # "xor") => load' = ~load]_vars
    /\ []((OnlyCalled("toggle") /\ NoMutatorInProgress) =>
            /\ started["toggle"] = 1 => load = ~init
            /\ started["toggle"] = 2 => load = init)

\* A flag that started false was toggled twice, both calls are over, and it
\* is false again.
C13_Witness ==
    /\ init = FALSE /\ OnlyCalled("toggle") /\ started["toggle"] = 2
    /\ NoMutatorInProgress
    /\ writes = 2 /\ calls = 2
    /\ load = FALSE

\* The steps a call at position p has left at most.
StepsLeft(p) == IF p \in {"cas", "xor"} THEN 2 ELSE IF p = "notify" THEN 1 ELSE 0

\* C14: load(), is_true() and is_false() can be called by a task at rest in
\* every state of a live flag and complete in that one step; a call of
\* set_true(), set_false() or toggle() can take its next step in every state,
\* whatever the other tasks are doing, and each of its steps brings it closer
\* to its return, which it reaches in at most two; the only call that is
\* under way and unable to step is a wait registered with the notifier.
C14_NonBlocking ==
    /\ [](\A t \in Tasks :
            /\ op[t] \notin Loads
            /\ (AtRest(t) /\ inner = {}) => \A l \in Loads : ENABLED Load(t, l)
            /\ op[t] \in Mutators => ENABLED Step(t)
            /\ (~AtRest(t) /\ ~ENABLED Step(t)) => (op[t] \in Waits /\ pc[t] = "waiting"))
    /\ [][\A t \in Tasks :
             (op[t] \in Mutators /\ pc'[t] # pc[t]) =>
                 /\ StepsLeft(pc'[t]) < StepsLeft(pc[t])
                 /\ StepsLeft(pc'[t]) = 0 <=> op'[t] = "none"]_vars

\* A setter ran to its return (its compare-and-swap failed, so nothing was
\* broadcast) while another mutator is stalled between its write and its
\* broadcast and a third task is suspended in a wait.
C14_Witness ==
    \E t \in Tasks : \E u \in Tasks \ {t} : \E w \in Tasks \ {t, u} :
        /\ AtRest(t) /\ NumStarted = 2 /\ writes = 1 /\ calls = 0
        /\ op[u] \in Mutators /\ pc[u] = "notify"
        /\ op[w] \in Waits /\ pc[w] = "waiting"

\* C15: a step that changes the value, counts a broadcast or wakes a waiter is
\* a step of set_true(), set_false() or toggle(); so load(), is_true(),
\* is_false(), wait(), wait_true() and wait_false() -- called, returning,
\* suspended or dropped -- leave the value alone and broadcast nothing.
\* Dropping a pending wait takes only that task off the waiter list: the
\* other suspended tasks stay registered, and a broadcast wakes every
\* suspended task.
C15_ObserversHaveNoEffect ==
    [][/\ (value' # value \/ calls' # calls \/ writes' # writes
              \/ \E w \in Tasks : pc[w] = "waiting" /\ pc'[w] = "woken") =>
                  \E t \in Tasks : op[t] \in Mutators /\ pc'[t] # pc[t]
       /\ \A t \in Tasks :
             (op[t] \in Waits /\ pc[t] = "waiting" /\ op'[t] = "none") =>
                 /\ waiters' = waiters \ {t}
                 /\ \A w \in Tasks \ {t} :
                       pc[w] = "waiting" => (pc'[w] = "waiting" /\ w \in waiters')
       /\ calls' # calls =>
             \A w \in Tasks : pc[w] = "waiting" => pc'[w] = "woken"]_vars

\* Two tasks are suspended in wait_true() on a false flag -- either may be
\* dropped -- and the third is about to do the compare-and-swap of set_true().
C15_Witness ==
    \E t \in Tasks : \E u \in Tasks \ {t} : \E m \in Tasks \ {t, u} :
        /\ op[t] = "wait_true" /\ pc[t] = "waiting"
        /\ op[u] = "wait_true" /\ pc[u] = "waiting"
        /\ load = FALSE
        /\ op[m] = "set_true" /\ pc[m] = "cas"

\* C16: the cell into_inner() hands out holds the flag's value: what load()
\* returns on the flag at that moment, which is the initial value with every
\* atomic write of the mutators called before applied to it in order (each
\* successful compare-and-swap and each fetch_xor negates the value).
C16_IntoInnerPreservesValue ==
    inner # {} =>
        /\ inner = {load}
        /\ inner = {IF writes % 2 = 0 THEN init ELSE ~init}

\* A flag that started false was consumed after a set_false(), which changed
\* nothing, and a toggle(): the cell handed out holds true, as a load()
\* before had returned.
C16_Witness ==
    /\ inner = {TRUE} /\ init = FALSE
    /\ started["set_false"] = 1 /\ started["toggle"] = 1
    /\ writes = 1
    /\ \E t \in Tasks : ret[t]

\* C19: a task suspended in wait_true() while the value is true (in
\* wait_false() while it is false) is about to be woken: some mutator has
\* done its atomic write and not yet its broadcast.  So with no mutating call
\* under way, no task is suspended in a conditional wait whose value is there.
C19_NoStuckWaiter ==
    \A t \in Tasks :
        (op[t] \in {"wait_true", "wait_false"} /\ pc[t] = "waiting"
            /\ load = Target(op[t])) =>
                \E u \in Tasks : op[u] \in Mutators /\ pc[u] = "notify"

\* C18: when wait_true() returns -- from its check, or after a wake-up -- the
\* value has been true at some moment since it was called; a write done
\* before the call does not count, also when its broadcast wakes the caller.
C18_ReturnsOnlyIfTrueDuringCall ==
    [][\A t \in Tasks :
          (op[t] = "wait_true" /\ pc[t] \in {"check", "woken", "ready"}
              /\ op'[t] = "none") => held[t]]_vars

\* C17: once the task that wrote the data has made the value true with
\* set_true() or toggle(), a load() that returns true -- in particular that of
\* a task woken from wait_true() -- makes the data write visible to its caller.
C17_AcquireReleaseVisibility ==
    [][\A t \in Tasks : (made /\ ~ret[t] /\ ret'[t]) => t \in sees']_vars

\* A task other than the writer of the data was woken from wait_true() after
\* the data was written, its load() then returned true, and it sees the data.
C17_Witness ==
    \E t \in Tasks \ {dw} :
        /\ made /\ t \in woke
        /\ AtRest(t) /\ ret[t]
        /\ t \in sees

====
